---- MODULE Spec2Model ----
(***************************************************************************)
(* A model of the replicated-document core of yorkie: the Text element     *)
(* (pkg/document/crdt/text.go), Object.Set and the Set operation.          *)
(*                                                                         *)
(* The module holds several specifications over one set of variables, one  *)
(* per group of operations:                                                *)
(*   SpecRemove  Text.Remove on one Text element                           *)
(*   SpecSelect  Text.Select on one Text element                           *)
(*   SpecAttrs   the attribute writes of Text.Edit / Text.Style on one     *)
(*               TextValue                                                 *)
(*   SpecSet     Set.Execute / Object.Set on one document root             *)
(*   SpecText    Text.Edit / Text.Style / purge on two replicas of a Text  *)
(*   SpecValue   TextValue.Split and attribute writes on TextValue objects *)
(*   SpecCopy    Text.DeepCopy, with edits and styles of source and copy   *)
(*   SpecReplay  Text.DeepCopy on sources with arbitrary insertion links   *)
(*   SpecElem    Text.Remove, SetMovedAt and DeepCopy on one Text element  *)
(* A specification leaves the variables of the other groups untouched.     *)
(***************************************************************************)
EXTENDS Integers, Sequences, FiniteSets, TLC

VARIABLES
    \* -- Text element fields (type Text) --
    createdAt,      \* Text.createdAt
    removedAt,      \* Text.removedAt (NilTicket when nil)
    movedAt,        \* Text.movedAt (NilTicket when nil)
    selectionMap,   \* Text.selectionMap: actor -> Selection (NoSelection when absent)
    \* -- what the callers of the element-level operations have done --
    calls,          \* number of calls made so far
    removeLast,     \* the last Text.Remove call: argument, removedAt before, result
    removeMax,      \* the greatest ticket after createdAt passed to Remove so far
    selectLast,     \* the last Text.Select call: arguments, selection before
    selectMax,      \* selectMax[a]: the greatest ticket actor a has passed to Select
    \* -- one TextValue and the attribute writes made on it --
    val,            \* a TextValue: [value, attrs]
    attrLast,       \* the last attribute write: key, value, ticket, attrs before
    attrMax,        \* attrMax[k]: the greatest ticket written to key k so far
    \* -- document root: identity registry and Object members --
    registry,       \* Root's identity registry: set of registered elements
    members,        \* members[o]: the RHT of Object o, key -> element (NoElem when absent)
    setLast,        \* the last Set.Execute call: operation, error, state before
    setDone,        \* the Set operations that have executed without error
    \* -- replicated Text --
    text,           \* text[r]: the node sequence of replica r's rgaTreeSplit
    clock,          \* clock[r]: the Lamport counter of replica r
    ops,            \* the operations generated so far (a sequence, in generation order)
    applied,        \* applied[r]: the indexes in ops replica r has applied
    purged,         \* purged[r]: the result of replica r's last purge call
    \* -- TextValue and RHT as objects: what a pointer points at --
    values,         \* values[a]: the TextValue object at address a: [value, attrs],
                    \* attrs being the address of its RHT
    tables,         \* tables[a]: the RHT object at address a
    splitLast,      \* the last TextValue.Split call: receiver, offset, the two results
    writeLast,      \* the address of the TextValue the last step wrote attributes
                    \* on, 0 when the last step was not an attribute write
    \* -- a Text and its deep copy, their values held by address --
    src,            \* the node sequence of the source Text; a node's value is an address
    cpy,            \* the node sequence of the Text DeepCopy returned, <<>> before the call
    copyElem,       \* the element fields of the Text DeepCopy returned
    opOn            \* what the last step was: "src" or "cpy" (an edit or a style on
                    \* that Text), "copy" (DeepCopy), "panic" (DeepCopy failed) or "none"

elemVars == <<createdAt, removedAt, movedAt, selectionMap>>
callVars == <<removeLast, removeMax, selectLast, selectMax>>
attrVars == <<val, attrLast, attrMax>>
docVars  == <<registry, members, setLast, setDone>>
textVars == <<text, clock, ops, applied, purged>>
copyVars == <<src, cpy, copyElem, opOn>>
objVars  == <<values, tables, splitLast, writeLast, copyVars>>
vars == <<calls, elemVars, callVars, attrVars, docVars, textVars, objVars>>

(***************************************************************************)
(* Bounds of the model.                                                    *)
(***************************************************************************)
MaxLamport == 2     \* lamport values of the tickets drawn as inputs: 0..MaxLamport
MaxCalls == 3       \* calls made in the element, attribute and document specifications
MaxPos == 1         \* positions a selection may name: 0..MaxPos

(***************************************************************************)
(* Ticket (pkg/document/time): (lamport, delimiter, actorID), totally      *)
(* ordered by lamport, then delimiter, then actorID.                       *)
(***************************************************************************)
NilTicket == [l |-> -1, d |-> -1, a |-> -1]         \* a nil *time.Ticket
InitialTicket == [l |-> 0, d |-> 0, a |-> 0]        \* time.InitialTicket
MaxTicket == [l |-> 1000, d |-> 1000, a |-> 1000]   \* time.MaxTicket

\* Two actors, and two operations (delimiters) of one change.
Actors == {1, 2}
Delimiters == {0, 1}

TicketSet == [l : 0..MaxLamport, d : Delimiters, a : Actors]

\* Ticket.Compare: -1, 0 or 1.
Compare(t, u) ==
    IF t.l # u.l THEN (IF t.l > u.l THEN 1 ELSE -1)
    ELSE IF t.d # u.d THEN (IF t.d > u.d THEN 1 ELSE -1)
    ELSE IF t.a # u.a THEN (IF t.a > u.a THEN 1 ELSE -1)
    ELSE 0

\* Ticket.After
After(t, u) == Compare(t, u) > 0

\* Ticket.ActorIDHex
ActorIDHex(t) == t.a

\* The greatest ticket of a non-empty set.
MaxOf(S) == CHOOSE t \in S : \A u \in S : Compare(t, u) >= 0

(***************************************************************************)
(* Text.Remove (text.go: Remove).                                          *)
(***************************************************************************)
\* A plausible slip: the creation ticket is not consulted.
TextRemoveOk_NoCreatedAt(t, created, removed) ==
    t # NilTicket /\ (removed = NilTicket \/ After(t, removed))

\* A plausible slip: the current removal ticket is not consulted.
TextRemoveOk_NoRemovedAt(t, created, removed) ==
    t # NilTicket /\ After(t, created)

\* The condition of Remove's if statement.
TextRemoveOk(t, created, removed) ==
    (t # NilTicket /\ After(t, created))
    /\ (removed = NilTicket \/ After(t, removed))

\* One call Text.Remove(t): the assignment and the returned bool.
TextRemove(t) ==
    /\ calls < MaxCalls
    /\ calls' = calls + 1
    /\ LET ok == TextRemoveOk(t, createdAt, removedAt) IN
       /\ removedAt' = IF ok THEN t ELSE removedAt
       /\ removeLast' = [arg |-> t, before |-> removedAt, ret |-> ok]
    /\ removeMax' = IF t # NilTicket /\ After(t, createdAt)
                    THEN (IF removeMax = NilTicket THEN t ELSE MaxOf({removeMax, t}))
                    ELSE removeMax
    /\ UNCHANGED <<createdAt, movedAt, selectionMap, selectLast, selectMax,
                   attrVars, docVars, textVars, objVars>>

(***************************************************************************)
(* The state of each group after construction.                             *)
(***************************************************************************)
NoCall == [arg |-> NilTicket, before |-> NilTicket, ret |-> FALSE]

\* NewText: a live element with an empty selection map.
NoSelection == [from |-> -1, to |-> -1, updatedAt |-> NilTicket]

InitElem ==
    /\ createdAt = InitialTicket
    /\ removedAt = NilTicket
    /\ movedAt = NilTicket
    /\ selectionMap = [a \in Actors |-> NoSelection]

InitCalls ==
    /\ calls = 0
    /\ removeLast = NoCall
    /\ removeMax = NilTicket
    /\ selectLast = [from |-> -1, to |-> -1, executedAt |-> NilTicket, before |-> NoSelection]
    /\ selectMax = [a \in Actors |-> NilTicket]

(***************************************************************************)
(* SpecRemove: a Text created at any ticket, then any Remove calls.        *)
(***************************************************************************)
InitRemove ==
    /\ createdAt \in TicketSet
    /\ removedAt = NilTicket
    /\ movedAt = NilTicket
    /\ selectionMap = [a \in Actors |-> NoSelection]
    /\ InitCalls

NextRemove == \E t \in TicketSet \cup {NilTicket} : TextRemove(t)

(***************************************************************************)
(* Text.Select (text.go: Select).  A position (RGATreeSplitNodePos) is     *)
(* opaque to Select; it is an integer here.                                *)
(***************************************************************************)
\* newSelection(from, to, executedAt)
newSelection(from, to, executedAt) ==
    [from |-> from, to |-> to, updatedAt |-> executedAt]

\* A plausible slip: the stored selection's ticket is not consulted.
SelectWrites_Always(prev, executedAt) == TRUE

\* The condition of Select's if statement: !ok || executedAt.After(prev.updatedAt)
SelectWrites(prev, executedAt) ==
    prev = NoSelection \/ After(executedAt, prev.updatedAt)

\* One call Text.Select(from, to, executedAt).
TextSelect(from, to, executedAt) ==
    /\ calls < MaxCalls
    /\ calls' = calls + 1
    /\ LET a == ActorIDHex(executedAt)
           prev == selectionMap[a] IN
       /\ selectionMap' =
            IF SelectWrites(prev, executedAt)
            THEN [selectionMap EXCEPT ![a] = newSelection(from, to, executedAt)]
            ELSE selectionMap
       /\ selectLast' = [from |-> from, to |-> to, executedAt |-> executedAt,
                         before |-> prev]
       /\ selectMax' = [selectMax EXCEPT ![a] =
                          IF @ = NilTicket THEN executedAt ELSE MaxOf({@, executedAt})]
    /\ UNCHANGED <<createdAt, removedAt, movedAt, removeLast, removeMax,
                   attrVars, docVars, textVars, objVars>>

\* The tickets and ranges drawn for Select.
SelectTickets == [l : 0..MaxLamport, d : {0}, a : Actors]

NextSelect ==
    \E from \in 0..MaxPos, to \in 0..MaxPos, t \in SelectTickets :
        from <= to /\ TextSelect(from, to, t)

(***************************************************************************)
(* RHT of text attributes (crdt.RHT): key -> (value, updatedAt).           *)
(* An absent key is NoAttr.                                                *)
(***************************************************************************)
Keys == {"b", "i"}
AttrVals == {1, 2}

NoAttr == [v |-> 0, at |-> NilTicket]

\* NewRHT()
NewRHT == [k \in Keys |-> NoAttr]

\* RHT.Set(k, v, executedAt): installs the entry when the key has none or
\* executedAt is after the recorded ticket.
RHTSet(rht, k, v, executedAt) ==
    IF rht[k] = NoAttr \/ After(executedAt, rht[k].at)
    THEN [rht EXCEPT ![k] = [v |-> v, at |-> executedAt]]
    ELSE rht

\* RHT.Elements(): the live entries, key -> value.
RHTElements(rht) ==
    [k \in {x \in Keys : rht[x] # NoAttr} |-> rht[k].v]

\* RHT.DeepCopy(): an independent table with the same entries.
RHTDeepCopy(rht) == [k \in Keys |-> rht[k]]

\* RHT.Marshal(): the live entries in key order, as <<key, value>> pairs.
RHTMarshal(rht) ==
    (IF rht["b"] # NoAttr THEN <<(<<"b", rht["b"].v>>)>> ELSE <<>>)
    \o (IF rht["i"] # NoAttr THEN <<(<<"i", rht["i"].v>>)>> ELSE <<>>)

(***************************************************************************)
(* An attributes argument (map[string]string): key -> value, 0 when the    *)
(* key is not in the map.                                                  *)
(***************************************************************************)
AttrMaps == [Keys -> AttrVals \cup {0}]

RECURSIVE SetAttrsOver(_, _, _, _)
SetAttrsOver(rht, ks, attributes, executedAt) ==
    IF ks = {} THEN rht
    ELSE LET k == CHOOSE x \in ks : TRUE IN
         SetAttrsOver(RHTSet(rht, k, attributes[k], executedAt),
                      ks \ {k}, attributes, executedAt)

\* A plausible slip: the attributes are assigned without the ticket rule.
SetAttrs_Overwrite(rht, attributes, executedAt) ==
    [k \in Keys |-> IF attributes[k] # 0
                    THEN [v |-> attributes[k], at |-> executedAt]
                    ELSE rht[k]]

\* for key, value := range attributes { val.attrs.Set(key, value, executedAt) }
SetAttrs(rht, attributes, executedAt) ==
    SetAttrsOver(rht, {k \in Keys : attributes[k] # 0}, attributes, executedAt)

(***************************************************************************)
(* SpecAttrs: one TextValue and any attribute writes on it.  Writes with   *)
(* different values carry different tickets: the value written to a key    *)
(* is a function of the key and the ticket.                                *)
(***************************************************************************)
AttrValueOf(k, t) == 1 + ((t.l + t.d + t.a + (IF k = "b" THEN 0 ELSE 1)) % 2)

\* The attributes a write with ticket t carries, for a set of keys.
AttrsAt(ks, t) == [k \in Keys |-> IF k \in ks THEN AttrValueOf(k, t) ELSE 0]

NoWrite == [attributes |-> [k \in Keys |-> 0], executedAt |-> NilTicket, before |-> NewRHT]

InitAttrs ==
    /\ val = [value |-> <<>>, attrs |-> NewRHT]
    /\ attrLast = NoWrite
    /\ attrMax = [k \in Keys |-> NilTicket]

\* The attribute loop of Text.Edit and Text.Style on one value.
WriteAttrs(attributes, executedAt) ==
    /\ calls < MaxCalls
    /\ calls' = calls + 1
    /\ val' = [val EXCEPT !.attrs = SetAttrs(val.attrs, attributes, executedAt)]
    /\ attrLast' = [attributes |-> attributes, executedAt |-> executedAt,
                    before |-> val.attrs]
    /\ attrMax' = [k \in Keys |->
                     IF attributes[k] = 0 THEN attrMax[k]
                     ELSE IF attrMax[k] = NilTicket THEN executedAt
                     ELSE MaxOf({attrMax[k], executedAt})]
    /\ UNCHANGED <<elemVars, callVars, docVars, textVars, objVars>>

NextAttrs ==
    \E ks \in (SUBSET Keys) \ {{}}, t \in TicketSet : WriteAttrs(AttrsAt(ks, t), t)

(***************************************************************************)
(* Document elements.  An element is identified by its creation ticket;    *)
(* the root Object is created at the initial ticket.                       *)
(***************************************************************************)
Elem(kind, l, d, a) == [kind |-> kind, createdAt |-> [l |-> l, d |-> d, a |-> a]]

NoElem == [kind |-> "none", createdAt |-> NilTicket]
RootObject == [kind |-> "Object", createdAt |-> InitialTicket]

\* The values the Set operations of the model introduce: two Objects, a Text
\* and a Primitive, each with its own creation ticket.
SetValues ==
    { Elem("Object", 1, 0, 1), Elem("Object", 2, 0, 2),
      Elem("Text", 1, 0, 2), Elem("Primitive", 2, 0, 1) }

Objects == {RootObject} \cup {v \in SetValues : v.kind = "Object"}

ObjKeys == {"x", "y"}

\* The tickets a Set operation may name as its target: every element's, and
\* one that no element carries.
UnknownTicket == [l |-> 2, d |-> 1, a |-> 2]
SetTargets == {RootObject.createdAt, UnknownTicket} \cup {v.createdAt : v \in SetValues}

\* Root.FindByCreatedAt: the registered element with that creation ticket.
FindByCreatedAt(reg, t) ==
    IF \E e \in reg : e.createdAt = t
    THEN CHOOSE e \in reg : e.createdAt = t
    ELSE NoElem

\* Root.RegisterElement: the registry is keyed by creation ticket.
RegisterElement(reg, e) == {x \in reg : x.createdAt # e.createdAt} \cup {e}

\* datatype.RHT.Set(k, v) of an Object's members: the write ticket is the
\* value's own creation ticket.
ObjRHTSet(rht, k, v) ==
    IF rht[k] = NoElem \/ After(v.createdAt, rht[k].createdAt)
    THEN [rht EXCEPT ![k] = v]
    ELSE rht

\* A plausible slip: the member is assigned whatever the tickets are.
ObjectSet_Overwrite(rht, k, v) == [rht EXCEPT ![k] = v]

\* Object.Set(k, v) (object.go): o.members.Set(k, v)
ObjectSet(rht, k, v) == ObjRHTSet(rht, k, v)

\* Object.Members()
ObjectMembers(rht) == [k \in {x \in ObjKeys : rht[x] # NoElem} |-> rht[k]]

(***************************************************************************)
(* Set.Execute (set.go).  The result is the error flag and the document    *)
(* (registry and members) the call leaves.                                 *)
(***************************************************************************)
NewSet(key, value, parentCreatedAt, executedAt) ==
    [key |-> key, value |-> value, parentCreatedAt |-> parentCreatedAt,
     executedAt |-> executedAt]

\* A plausible slip: the value is not registered.
SetExecute_NoRegister(reg, mem, op) ==
    LET parent == FindByCreatedAt(reg, op.parentCreatedAt) IN
    IF parent.kind # "Object"
    THEN [err |-> TRUE, registry |-> reg, members |-> mem]
    ELSE [err |-> FALSE, registry |-> reg,
          members |-> [mem EXCEPT ![parent] = ObjectSet(@, op.key, op.value)]]

\* A plausible slip: the value is registered before the target is checked.
SetExecute_RegisterFirst(reg, mem, op) ==
    LET parent == FindByCreatedAt(reg, op.parentCreatedAt) IN
    IF parent.kind # "Object"
    THEN [err |-> TRUE, registry |-> RegisterElement(reg, op.value), members |-> mem]
    ELSE [err |-> FALSE, registry |-> RegisterElement(reg, op.value),
          members |-> [mem EXCEPT ![parent] = ObjectSet(@, op.key, op.value)]]

\* A plausible slip: the value is registered only when the write took effect.
SetExecute_RegisterWinner(reg, mem, op) ==
    LET parent == FindByCreatedAt(reg, op.parentCreatedAt) IN
    IF parent.kind # "Object"
    THEN [err |-> TRUE, registry |-> reg, members |-> mem]
    ELSE [err |-> FALSE,
          registry |-> IF ObjectSet(mem[parent], op.key, op.value) = mem[parent]
                       THEN reg
                       ELSE RegisterElement(reg, op.value),
          members |-> [mem EXCEPT ![parent] = ObjectSet(@, op.key, op.value)]]

SetExecute(reg, mem, op) ==
    LET parent == FindByCreatedAt(reg, op.parentCreatedAt) IN
    IF parent.kind # "Object"
    THEN [err |-> TRUE, registry |-> reg, members |-> mem]
    ELSE [err |-> FALSE,
          registry |-> RegisterElement(reg, op.value),
          members |-> [mem EXCEPT ![parent] = ObjectSet(@, op.key, op.value)]]

(***************************************************************************)
(* SpecSet: a document holding the root Object, and any Set operations     *)
(* executed on it, in any order and any number of times.                   *)
(***************************************************************************)
NoSet == [op |-> NewSet("x", NoElem, NilTicket, NilTicket), err |-> FALSE]

InitDoc ==
    /\ registry = {RootObject}
    /\ members = [o \in Objects |-> [k \in ObjKeys |-> NoElem]]
    /\ setLast = NoSet
    /\ setDone = {}

\* The executedAt tickets drawn for Set operations: before and after every value.
SetExecTickets == { [l |-> 0, d |-> 1, a |-> 1], [l |-> 3, d |-> 0, a |-> 2] }

Execute(op) ==
    /\ calls < MaxCalls
    /\ calls' = calls + 1
    /\ LET r == SetExecute(registry, members, op) IN
       /\ registry' = r.registry
       /\ members' = r.members
       /\ setLast' = [op |-> op, err |-> r.err]
       /\ setDone' = IF r.err THEN setDone ELSE setDone \cup {op}
    /\ UNCHANGED <<elemVars, callVars, attrVars, textVars, objVars>>

NextSet ==
    \E k \in ObjKeys, v \in SetValues, p \in SetTargets, e \in SetExecTickets :
        Execute(NewSet(k, v, p, e))

(***************************************************************************)
(* TextValue (text.go).  A string is a sequence of runes (numbers); a rune *)
(* at or above SuppBase lies outside the basic plane and takes two UTF-16  *)
(* code units, any other rune takes one.                                   *)
(***************************************************************************)
SuppBase == 1000        \* the first rune that needs a surrogate pair
SurrogateHi == 10000    \* high surrogate of rune r: SurrogateHi + r
SurrogateLo == 20000    \* low surrogate of rune r: SurrogateLo + r
ReplacementChar == 999  \* U+FFFD

IsHi(u) == u >= SurrogateHi /\ u < SurrogateLo
IsLo(u) == u >= SurrogateLo

\* utf16.Encode([]rune(s))
RECURSIVE Utf16Encode(_)
Utf16Encode(rs) ==
    IF rs = <<>> THEN <<>>
    ELSE (IF Head(rs) >= SuppBase
          THEN <<SurrogateHi + Head(rs), SurrogateLo + Head(rs)>>
          ELSE <<Head(rs)>>) \o Utf16Encode(Tail(rs))

\* string(utf16.Decode(us)): a high surrogate followed by its low surrogate is
\* one rune, a surrogate on its own is the replacement character.
RECURSIVE Utf16Decode(_)
Utf16Decode(us) ==
    IF us = <<>> THEN <<>>
    ELSE IF /\ IsHi(us[1]) /\ Len(us) >= 2 /\ IsLo(us[2])
            /\ us[2] - SurrogateLo = us[1] - SurrogateHi
         THEN <<us[1] - SurrogateHi>> \o Utf16Decode(SubSeq(us, 3, Len(us)))
         ELSE <<(IF IsHi(us[1]) \/ IsLo(us[1]) THEN ReplacementChar ELSE us[1])>>
              \o Utf16Decode(Tail(us))

\* NewTextValue(value, attrs)
NewTextValue(value, attrs) == [value |-> value, attrs |-> attrs]

\* TextValue.Len(): the length in UTF-16 code units.
ValueLen(v) == Len(Utf16Encode(v.value))

\* TextValue.Split(offset): the receiver after the call (head) and the
\* returned value (tail).
ValueSplit(v, offset) ==
    LET encoded == Utf16Encode(v.value) IN
    [head |-> [v EXCEPT !.value = Utf16Decode(SubSeq(encoded, 1, offset))],
     tail |-> NewTextValue(Utf16Decode(SubSeq(encoded, offset + 1, Len(encoded))),
                           RHTDeepCopy(v.attrs))]

\* EscapeString: a quote or a backslash gets a backslash before it.
QuoteRune == 34
BackslashRune == 92

RECURSIVE EscapeString(_)
EscapeString(rs) ==
    IF rs = <<>> THEN <<>>
    ELSE (IF Head(rs) \in {QuoteRune, BackslashRune}
          THEN <<BackslashRune, Head(rs)>>
          ELSE <<Head(rs)>>) \o EscapeString(Tail(rs))

\* TextValue.Marshal(): {"val":...} when there are no attributes, and
\* {"attrs":...,"val":...} otherwise.
ValueMarshal(v) ==
    IF DOMAIN RHTElements(v.attrs) = {}
    THEN <<"val", EscapeString(v.value)>>
    ELSE <<"attrs", RHTMarshal(v.attrs), "val", EscapeString(v.value)>>

(***************************************************************************)
(* RGATreeSplit: the node sequence of a Text.  nodes[1] is the initial     *)
(* head.  A node is [id, value, removedAt, insPrev]; insNext of a node is  *)
(* the node whose insPrev names it.                                        *)
(***************************************************************************)
NodeID(t, offset) == [createdAt |-> t, offset |-> offset]
NilID == NodeID(NilTicket, -1)
InitialNodeID == NodeID(InitialTicket, 0)

\* NewRGATreeSplitNode(id, value)
NewNode(id, value) ==
    [id |-> id, value |-> value, removedAt |-> NilTicket, insPrev |-> NilID]

\* InitialTextNode()
InitialTextNode == NewNode(InitialNodeID, NewTextValue(<<>>, NewRHT))

\* RGATreeSplitNodePos
Pos(id, relativeOffset) == [id |-> id, relativeOffset |-> relativeOffset]

\* The index of the node carrying id, 0 when there is none (FindNode).
IndexOf(nodes, id) ==
    IF \E i \in 1..Len(nodes) : nodes[i].id = id
    THEN CHOOSE i \in 1..Len(nodes) : nodes[i].id = id
    ELSE 0

\* The content length a live node contributes; a tombstoned node weighs 0.
Weight(n) == IF n.removedAt = NilTicket THEN ValueLen(n.value) ELSE 0

RECURSIVE WeightBefore(_, _)
WeightBefore(nodes, i) ==
    IF i <= 1 THEN 0 ELSE WeightBefore(nodes, i - 1) + Weight(nodes[i - 1])

\* The length of the visible text.
TotalLen(nodes) == WeightBefore(nodes, Len(nodes) + 1)

PosIn(nodes, i, index) == Pos(nodes[i].id, index - WeightBefore(nodes, i))

\* findNodePos(index): index 0 is the initial head; any other index lies in
\* the live node that holds the index-th code unit.
FindNodePos(nodes, index) ==
    IF index = 0 THEN Pos(nodes[1].id, 0)
    ELSE PosIn(nodes,
               CHOOSE k \in 1..Len(nodes) :
                    /\ WeightBefore(nodes, k) < index
                    /\ index <= WeightBefore(nodes, k) + Weight(nodes[k]),
               index)

\* createRange(from, to)
CreateRange(nodes, from, to) ==
    [from |-> FindNodePos(nodes, from), to |-> FindNodePos(nodes, to)]

\* findFloorNode(id): the node of the same creation ticket with the greatest
\* offset not above id's; 0 when there is none.
FindFloorNode(nodes, id) ==
    LET cand == {i \in 1..Len(nodes) :
                    /\ nodes[i].id.createdAt = id.createdAt
                    /\ nodes[i].id.offset <= id.offset}
    IN IF cand = {} THEN 0
       ELSE CHOOSE i \in cand :
                \A k \in cand : nodes[k].id.offset <= nodes[i].id.offset

\* findFloorNodePreferToLeft(id), given the floor node i.
PreferToLeft(nodes, id, i) ==
    IF i # 0 /\ id.offset > 0 /\ nodes[i].id.offset = id.offset
       /\ nodes[i].insPrev # NilID
    THEN IndexOf(nodes, nodes[i].insPrev)
    ELSE i

FindFloorNodePreferToLeft(nodes, id) ==
    PreferToLeft(nodes, id, FindFloorNode(nodes, id))

\* insNext.SetInsPrev(splitNode): the node inserted after oldID now follows newID.
Relink(nodes, oldID, newID) ==
    [k \in 1..Len(nodes) |->
        IF nodes[k].insPrev = oldID
        THEN [nodes[k] EXCEPT !.insPrev = newID]
        ELSE nodes[k]]

\* The sequence with node i replaced by head and tail.
SplitInto(nodes, i, head, tail) ==
    SubSeq(nodes, 1, i - 1) \o <<head, tail>> \o SubSeq(nodes, i + 1, Len(nodes))

\* RGATreeSplitNode.split(offset) and the links splitNode sets.
SplitParts(nodes, i, n, parts, offset) ==
    SplitInto(Relink(nodes, n.id, NodeID(n.id.createdAt, n.id.offset + offset)),
              i,
              [n EXCEPT !.value = parts.head],
              [id |-> NodeID(n.id.createdAt, n.id.offset + offset),
               value |-> parts.tail,
               removedAt |-> n.removedAt,
               insPrev |-> n.id])

\* splitNode(node, offset): the tail gets a new id, a copy of the attributes
\* and the head's tombstone, and takes over the head's insertion successor.
SplitNode(nodes, i, offset) ==
    IF offset = 0 \/ offset = ValueLen(nodes[i].value) THEN nodes
    ELSE SplitParts(nodes, i, nodes[i], ValueSplit(nodes[i].value, offset), offset)

\* The absolute id of a position (getAbsoluteID).
AbsoluteID(pos) == NodeID(pos.id.createdAt, pos.id.offset + pos.relativeOffset)

ResolvesAt(nodes, abs, i) ==
    i # 0 /\ abs.offset - nodes[i].id.offset <= ValueLen(nodes[i].value)

\* Whether a position names a node of the sequence, within its content.
Resolves(nodes, pos) ==
    ResolvesAt(nodes, AbsoluteID(pos), FindFloorNodePreferToLeft(nodes, AbsoluteID(pos)))

\* The last node reached from i by stepping over nodes created after executedAt.
RECURSIVE SkipLater(_, _, _)
SkipLater(nodes, i, executedAt) ==
    IF i < Len(nodes) /\ After(nodes[i + 1].id.createdAt, executedAt)
    THEN SkipLater(nodes, i + 1, executedAt)
    ELSE i

\* The ids findNodeWithSplit returns: the left node and its next (NilID when
\* there is none).
SplitResult(after, left) ==
    [nodes |-> after,
     left |-> after[left].id,
     right |-> IF left < Len(after) THEN after[left + 1].id ELSE NilID]

SplitSkip(after, i, executedAt) ==
    SplitResult(after, SkipLater(after, i, executedAt))

SplitAt(nodes, abs, i, executedAt) ==
    SplitSkip(SplitNode(nodes, i, abs.offset - nodes[i].id.offset), i, executedAt)

\* findNodeWithSplit(pos, executedAt): the sequence after the split and the
\* ids of the left and right nodes.
FindNodeWithSplit(nodes, pos, executedAt) ==
    SplitAt(nodes, AbsoluteID(pos),
            FindFloorNodePreferToLeft(nodes, AbsoluteID(pos)), executedAt)

BetweenIndexes(nodes, f, t) ==
    IF t >= f THEN f..(t - 1) ELSE f..Len(nodes)

\* findBetween(from, to): the indexes from the node from up to, not
\* including, the node to; to the end of the sequence when to is not met.
FindBetween(nodes, from, to) ==
    IF from = NilID THEN {}
    ELSE BetweenIndexes(nodes, IndexOf(nodes, from), IndexOf(nodes, to))

InsertAt(nodes, i, node) ==
    SubSeq(nodes, 1, i) \o <<node>> \o SubSeq(nodes, i + 1, Len(nodes))

\* InsertAfter(prev, node)
InsertAfter(nodes, prev, node) == InsertAt(nodes, IndexOf(nodes, prev), node)

(***************************************************************************)
(* latestCreatedAtMapByActor: actor -> ticket, NilTicket for an actor not  *)
(* in the map.  NilMap is the nil map of a local edit.                     *)
(***************************************************************************)
EmptyMap == [a \in Actors |-> NilTicket]
NilMap == [a \in Actors |-> MaxTicket]

\* The ticket deleteNodes compares a node's creation ticket with: the
\* greatest ticket for a local edit, the actor's entry of the map, or the
\* initial ticket when the map has no entry for the actor.
LatestCreatedAt(latest, actor) ==
    IF latest = NilMap THEN MaxTicket
    ELSE IF latest[actor] # NilTicket THEN latest[actor]
    ELSE InitialTicket

\* RGATreeSplitNode.Remove(removedAt, latestCreatedAt)
NodeRemoves(n, editedAt, latestCreatedAt) ==
    /\ ~After(n.id.createdAt, latestCreatedAt)
    /\ (n.removedAt = NilTicket \/ After(editedAt, n.removedAt))

\* The candidates deleteNodes tombstones.
RemovedBy(nodes, candidates, latest, editedAt) ==
    {i \in candidates :
        NodeRemoves(nodes[i], editedAt,
                    LatestCreatedAt(latest, ActorIDHex(nodes[i].id.createdAt)))}

\* The greatest creation ticket among the removed nodes of an actor.
RemovedTickets(nodes, removed, a) ==
    {nodes[i].id.createdAt : i \in {k \in removed : ActorIDHex(nodes[k].id.createdAt) = a}}

MaxOrNil(S) == IF S = {} THEN NilTicket ELSE MaxOf(S)

Tombstone(nodes, removed, editedAt) ==
    [nodes |-> [i \in 1..Len(nodes) |->
                  IF i \in removed THEN [nodes[i] EXCEPT !.removedAt = editedAt]
                  ELSE nodes[i]],
     map |-> [a \in Actors |-> MaxOrNil(RemovedTickets(nodes, removed, a))]]

\* deleteNodes(candidates, latestCreatedAtMapByActor, editedAt): the sequence
\* after the tombstones, and the greatest creation ticket removed per actor.
DeleteNodes(nodes, candidates, latest, editedAt) ==
    Tombstone(nodes, RemovedBy(nodes, candidates, latest, editedAt), editedAt)

\* The caret position edit returns.
CaretPos(toSplit, content, editedAt) ==
    IF ValueLen(content) > 0
    THEN Pos(NodeID(editedAt, 0), ValueLen(content))
    ELSE Pos(IF toSplit.right = NilID THEN toSplit.left ELSE toSplit.right, 0)

\* 03. insert a new node (when the content is not empty)
EditInsert(deleted, fromLeft, toSplit, content, editedAt) ==
    [nodes |-> IF ValueLen(content) > 0
               THEN InsertAfter(deleted.nodes, fromLeft,
                                NewNode(NodeID(editedAt, 0), content))
               ELSE deleted.nodes,
     map |-> deleted.map,
     caret |-> CaretPos(toSplit, content, editedAt)]

\* 02. delete between from and to
EditDelete(fromSplit, toSplit, latest, content, editedAt) ==
    EditInsert(DeleteNodes(fromSplit.nodes,
                           FindBetween(fromSplit.nodes, fromSplit.right, toSplit.right),
                           latest, editedAt),
               fromSplit.left, toSplit, content, editedAt)

\* 01. split nodes with from and to (the split at from follows that at to)
EditSplitFrom(toSplit, from, latest, content, editedAt) ==
    EditDelete(FindNodeWithSplit(toSplit.nodes, from, editedAt), toSplit,
               latest, content, editedAt)

\* RGATreeSplit.edit(from, to, latestCreatedAtMapByActor, content, editedAt)
RGAEdit(nodes, from, to, latest, content, editedAt) ==
    EditSplitFrom(FindNodeWithSplit(nodes, to, editedAt), from, latest, content, editedAt)

\* RGATreeSplit.nodes()
RGANodes(nodes) == SubSeq(nodes, 2, Len(nodes))

\* removedNodesLen(): the number of tombstoned nodes.
RemovedNodesLen(nodes) ==
    Cardinality({i \in 1..Len(nodes) : nodes[i].removedAt # NilTicket})

\* Whether purgeTextNodesWithGarbage(ticket) discards the node.
Purges(n, ticket) == n.removedAt # NilTicket /\ Compare(ticket, n.removedAt) >= 0

\* The insertion predecessor a node is left with once the nodes the purge
\* discards are unlinked: the nearest kept node up its insertion chain.
RECURSIVE KeptInsPrev(_, _, _)
KeptInsPrev(nodes, id, ticket) ==
    IF id = NilID \/ IndexOf(nodes, id) = 0 THEN NilID
    ELSE IF Purges(nodes[IndexOf(nodes, id)], ticket)
         THEN KeptInsPrev(nodes, nodes[IndexOf(nodes, id)].insPrev, ticket)
         ELSE id

RECURSIVE KeepNodes(_, _, _)
KeepNodes(nodes, all, ticket) ==
    IF nodes = <<>> THEN <<>>
    ELSE IF Purges(Head(nodes), ticket) THEN KeepNodes(Tail(nodes), all, ticket)
    ELSE <<[Head(nodes) EXCEPT !.insPrev = KeptInsPrev(all, @, ticket)]>>
         \o KeepNodes(Tail(nodes), all, ticket)

\* RGATreeSplit.purgeTextNodesWithGarbage(ticket): the sequence without the
\* tombstoned nodes whose removedAt is at or before ticket, and their number.
RGAPurge(nodes, ticket) ==
    [nodes |-> KeepNodes(nodes, nodes, ticket),
     count |-> Cardinality({i \in 1..Len(nodes) : Purges(nodes[i], ticket)})]

(***************************************************************************)
(* Text (text.go) over its node sequence.                                  *)
(***************************************************************************)
\* A plausible slip: the tombstone test is left out.
Rendered_Tombstoned(nodes, created) ==
    {i \in 2..Len(nodes) : Compare(nodes[i].id.createdAt, created) # 0}

\* The nodes String() and Marshal() render: those after the initial head
\* that are not created at the Text's own ticket and are not tombstoned.
Rendered(nodes, created) ==
    {i \in 2..Len(nodes) :
        /\ Compare(nodes[i].id.createdAt, created) # 0
        /\ nodes[i].removedAt = NilTicket}

RECURSIVE StringFrom(_, _, _)
StringFrom(nodes, created, i) ==
    IF i > Len(nodes) THEN <<>>
    ELSE (IF i \in Rendered(nodes, created) THEN nodes[i].value.value ELSE <<>>)
         \o StringFrom(nodes, created, i + 1)

\* Text.String()
TextString(nodes, created) == StringFrom(nodes, created, 2)

RECURSIVE MarshalFrom(_, _, _)
MarshalFrom(nodes, created, i) ==
    IF i > Len(nodes) THEN <<>>
    ELSE (IF i \in Rendered(nodes, created)
          THEN <<ValueMarshal(nodes[i].value)>> ELSE <<>>)
         \o MarshalFrom(nodes, created, i + 1)

\* Text.Marshal()
TextMarshal(nodes, created) == MarshalFrom(nodes, created, 2)

\* Text.CreateRange(from, to)
TextCreateRange(nodes, from, to) == CreateRange(nodes, from, to)

\* A plausible slip: the map of the operation is not passed on (a nil map).
TextEdit_NilMap(nodes, from, to, latest, content, attributes, executedAt) ==
    RGAEdit(nodes, from, to, NilMap,
            NewTextValue(content, SetAttrs(NewRHT, attributes, executedAt)),
            executedAt)

\* Text.Edit(from, to, latestCreatedAtMapByActor, content, attributes, executedAt)
TextEdit(nodes, from, to, latest, content, attributes, executedAt) ==
    RGAEdit(nodes, from, to, latest,
            NewTextValue(content, SetAttrs(NewRHT, attributes, executedAt)),
            executedAt)

\* A plausible slip: the attributes are assigned without the ticket rule.
StyleNodes_Overwrite(after, between, attributes, executedAt) ==
    [i \in 1..Len(after) |->
        IF i \in between
        THEN [after[i] EXCEPT !.value.attrs =
                                SetAttrs_Overwrite(@, attributes, executedAt)]
        ELSE after[i]]

\* 02. style nodes between from and to
StyleNodes(after, between, attributes, executedAt) ==
    [i \in 1..Len(after) |->
        IF i \in between
        THEN [after[i] EXCEPT !.value.attrs = SetAttrs(@, attributes, executedAt)]
        ELSE after[i]]

StyleBetween(fromSplit, toSplit, attributes, executedAt) ==
    StyleNodes(fromSplit.nodes,
               FindBetween(fromSplit.nodes, fromSplit.right, toSplit.right),
               attributes, executedAt)

StyleSplitFrom(toSplit, from, attributes, executedAt) ==
    StyleBetween(FindNodeWithSplit(toSplit.nodes, from, executedAt), toSplit,
                 attributes, executedAt)

\* Text.Style(from, to, attributes, executedAt): 01. split nodes with from and
\* to; 02. every node between the boundaries gets the attributes.
TextStyle(nodes, from, to, attributes, executedAt) ==
    StyleSplitFrom(FindNodeWithSplit(nodes, to, executedAt), from, attributes, executedAt)

\* Text.Nodes()
TextNodes(nodes) == RGANodes(nodes)

\* Text.removedNodesLen()
TextRemovedNodesLen(nodes) == RemovedNodesLen(nodes)

\* A plausible slip: the nodes are discarded and the insertion links of the
\* nodes that stay are left as they were.
TextPurge_KeepLinks(nodes, ticket) ==
    [nodes |-> SelectSeq(nodes, LAMBDA n : ~Purges(n, ticket)),
     count |-> RGAPurge(nodes, ticket).count]

\* A plausible slip: the threshold is not passed on.
TextPurge_NoThreshold(nodes, ticket) == RGAPurge(nodes, MaxTicket)

\* Text.purgeTextNodesWithGarbage(ticket)
TextPurge(nodes, ticket) == RGAPurge(nodes, ticket)

(***************************************************************************)
(* Text.DeepCopy: a new sequence into which every node of Nodes() is       *)
(* replayed in order, each after the one before it, with its insertion     *)
(* predecessor looked up in the copy.                                      *)
(***************************************************************************)
\* TextValue.DeepCopy()
ValueDeepCopy(v) == [attrs |-> RHTDeepCopy(v.attrs), value |-> v.value]

\* RGATreeSplitNode.DeepCopy(): the id, a copy of the value and the tombstone.
NodeDeepCopy(n) ==
    [id |-> n.id, value |-> ValueDeepCopy(n.value), removedAt |-> n.removedAt,
     insPrev |-> NilID]

\* rgaTreeSplit.FindNode(id): the index of the node, 0 when there is none.
FindNode(nodes, id) == IndexOf(nodes, id)

\* panic("insPrevNode should be presence"): no copy is returned.
Panic == [err |-> TRUE, nodes |-> <<>>]

RECURSIVE Replay(_, _, _)
\* A plausible slip: a predecessor that is not found is skipped.
ReplayLink_NoPanic(source, k, inserted, found) ==
    IF found = 0 THEN Replay(source, k + 1, inserted)
    ELSE Replay(source, k + 1,
                [inserted EXCEPT ![k + 1].insPrev = inserted[found].id])

\* current.SetInsPrev(insPrevNode), or the panic when FindNode returned nil.
ReplayLink(source, k, inserted, found) ==
    IF found = 0 THEN Panic
    ELSE Replay(source, k + 1,
                [inserted EXCEPT ![k + 1].insPrev = inserted[found].id])

\* The body of the loop for node k of Nodes(), the copy holding the initial
\* head and the k - 1 nodes replayed so far (current is its last node).
ReplayNode(source, k, inserted) ==
    IF source[k].insPrev = NilID THEN Replay(source, k + 1, inserted)
    ELSE ReplayLink(source, k, inserted, FindNode(inserted, source[k].insPrev))

Replay(source, k, copy) ==
    IF k > Len(source) THEN [err |-> FALSE, nodes |-> copy]
    ELSE ReplayNode(source, k, InsertAt(copy, k, NodeDeepCopy(source[k])))

\* NewText(elements, createdAt): the element fields of a new Text.
NewText(created) ==
    [createdAt |-> created, removedAt |-> NilTicket, movedAt |-> NilTicket]

\* Text.DeepCopy(): the node sequence of the copy, or the panic.
TextDeepCopy(nodes) == Replay(TextNodes(nodes), 1, <<InitialTextNode>>)

(***************************************************************************)
(* SpecText: two replicas of one Text.  A replica edits or styles its own  *)
(* copy (a local operation, with the nil map) and the operation, carrying  *)
(* the positions and the map the local call produced, is later applied to  *)
(* the other replica, after the operations it was generated on top of.     *)
(***************************************************************************)
MaxOps == 3         \* operations generated in all, the first one included
MaxContent == 2     \* runes of an edit's content: 0..MaxContent
MaxPurges == 1      \* purge calls made in all

Replicas == Actors

\* The Text's own creation ticket: it precedes every edit.
TextCreatedAt == [l |-> 0, d |-> 1, a |-> 1]

\* The content an edit with ticket t inserts: n runes that name the edit.
ContentOf(t, n) == [k \in 1..n |-> 100 * t.l + 10 * t.a + k]

\* The attributes an edit or a style may carry.
EditAttrs == { [k \in Keys |-> 0], [k \in Keys |-> IF k = "b" THEN 1 ELSE 0] }
StyleAttrs == { [k \in Keys |-> IF k = "b" THEN v ELSE 0] : v \in AttrVals }

\* The first operation: actor 1 inserts MaxContent runes into the empty text.
FirstTicket == [l |-> 1, d |-> 0, a |-> 1]
FirstRange == TextCreateRange(<<InitialTextNode>>, 0, 0)
FirstResult ==
    TextEdit(<<InitialTextNode>>, FirstRange.from, FirstRange.to, NilMap,
             ContentOf(FirstTicket, MaxContent), [k \in Keys |-> 0], FirstTicket)
FirstEdit ==
    [kind |-> "edit", from |-> FirstRange.from, to |-> FirstRange.to,
     latest |-> FirstResult.map, content |-> ContentOf(FirstTicket, MaxContent),
     attributes |-> [k \in Keys |-> 0], executedAt |-> FirstTicket,
     deps |-> {}]

\* Both replicas hold the Text after the first operation.
InitText ==
    /\ text = [r \in Replicas |->
                 TextEdit(<<InitialTextNode>>, FirstEdit.from, FirstEdit.to,
                          (IF r = 1 THEN NilMap ELSE FirstEdit.latest),
                          FirstEdit.content, FirstEdit.attributes,
                          FirstEdit.executedAt).nodes]
    /\ clock = [r \in Replicas |-> FirstTicket.l]
    /\ ops = <<FirstEdit>>
    /\ applied = [r \in Replicas |-> {1}]
    /\ purged = [r \in Replicas |-> [n |-> 0, ticket |-> NilTicket, count |-> 0]]

\* The ticket replica r issues next.
NextTicket(r) == [l |-> clock[r] + 1, d |-> 0, a |-> r]

Issue(r, op) ==
    /\ clock' = [clock EXCEPT ![r] = @ + 1]
    /\ ops' = Append(ops, op)
    /\ applied' = [applied EXCEPT ![r] = @ \cup {Len(ops) + 1}]

\* The operation a local edit sends: the positions it used and the map it got.
EditOp(r, range, res, content, attributes, t) ==
    [kind |-> "edit", from |-> range.from, to |-> range.to,
     latest |-> res.map, content |-> content,
     attributes |-> attributes, executedAt |-> t, deps |-> applied[r]]

EditLocally(r, range, content, attributes, t, res) ==
    /\ text' = [text EXCEPT ![r] = res.nodes]
    /\ Issue(r, EditOp(r, range, res, content, attributes, t))

EditRange(r, range, content, attributes, t) ==
    EditLocally(r, range, content, attributes, t,
                TextEdit(text[r], range.from, range.to, NilMap, content, attributes, t))

\* Replica r edits [from, to) of its text.
LocalEdit(r, from, to, n, attributes) ==
    /\ Len(ops) < MaxOps
    /\ from <= to /\ to <= TotalLen(text[r])
    /\ from < to \/ n > 0
    /\ EditRange(r, TextCreateRange(text[r], from, to),
                 ContentOf(NextTicket(r), n), attributes, NextTicket(r))
    /\ UNCHANGED <<calls, elemVars, callVars, attrVars, docVars, purged, objVars>>

StyleRange(r, range, attributes, t) ==
    /\ text' = [text EXCEPT ![r] = TextStyle(@, range.from, range.to, attributes, t)]
    /\ Issue(r, [kind |-> "style", from |-> range.from, to |-> range.to,
                 latest |-> EmptyMap, content |-> <<>>,
                 attributes |-> attributes, executedAt |-> t,
                 deps |-> applied[r]])

\* Replica r styles [from, to) of its text.
LocalStyle(r, from, to, attributes) ==
    /\ Len(ops) < MaxOps
    /\ from < to /\ to <= TotalLen(text[r])
    /\ StyleRange(r, TextCreateRange(text[r], from, to), attributes, NextTicket(r))
    /\ UNCHANGED <<calls, elemVars, callVars, attrVars, docVars, purged, objVars>>

\* The text of a replica after it executes an operation.
Apply(nodes, op) ==
    IF op.kind = "edit"
    THEN TextEdit(nodes, op.from, op.to, op.latest, op.content, op.attributes,
                  op.executedAt).nodes
    ELSE TextStyle(nodes, op.from, op.to, op.attributes, op.executedAt)

\* Replica r executes operation i of another replica.
Receive(r, i) ==
    /\ i \notin applied[r]
    /\ ops[i].deps \subseteq applied[r]
    /\ text' = [text EXCEPT ![r] = Apply(@, ops[i])]
    /\ clock' = [clock EXCEPT ![r] =
                    IF ops[i].executedAt.l > @ THEN ops[i].executedAt.l ELSE @]
    /\ applied' = [applied EXCEPT ![r] = @ \cup {i}]
    /\ UNCHANGED <<calls, elemVars, callVars, attrVars, docVars, ops, purged, objVars>>

\* Every replica has executed every operation generated so far.
Quiescent == \A r \in Replicas : applied[r] = 1..Len(ops)

PurgeResult(r, ticket, res) ==
    /\ text' = [text EXCEPT ![r] = res.nodes]
    /\ purged' = [purged EXCEPT ![r] = [n |-> @.n + 1, ticket |-> ticket,
                                        count |-> res.count]]

\* Replica r purges with the ticket of operation i as threshold; the threshold
\* is causally stable.
Purge(r, i) ==
    /\ Quiescent
    /\ \A q \in Replicas : purged[q].n < MaxPurges
    /\ PurgeResult(r, ops[i].executedAt, TextPurge(text[r], ops[i].executedAt))
    /\ UNCHANGED <<calls, elemVars, callVars, attrVars, docVars, clock, ops, applied, objVars>>

NextText ==
    \/ \E r \in Replicas :
         /\ Len(ops) < MaxOps
         /\ \E to \in 0..TotalLen(text[r]) : \E from \in 0..to :
              \E n \in 0..MaxContent, at \in EditAttrs : LocalEdit(r, from, to, n, at)
    \/ \E r \in Replicas :
         /\ Len(ops) < MaxOps
         /\ \E to \in 0..TotalLen(text[r]) : \E from \in 0..to :
              \E at \in StyleAttrs : LocalStyle(r, from, to, at)
    \/ \E r \in Replicas, i \in 1..Len(ops) : Receive(r, i)
    \/ \E r \in Replicas, i \in 1..Len(ops) : Purge(r, i)

InitTextElem ==
    /\ createdAt = TextCreatedAt
    /\ removedAt = NilTicket
    /\ movedAt = NilTicket
    /\ selectionMap = [a \in Actors |-> NoSelection]

NoText ==
    /\ text = <<>>
    /\ clock = <<>>
    /\ ops = <<>>
    /\ applied = <<>>
    /\ purged = <<>>

(***************************************************************************)
(* SpecValue: TextValue and RHT as objects.  A TextValue holds its string  *)
(* and a pointer to its RHT; Split changes the receiver in place and       *)
(* returns a new TextValue, and an attribute write goes through the        *)
(* pointer.  One value of a few runes, then any splits of the fragments    *)
(* and any attribute writes on them.                                       *)
(***************************************************************************)
MaxRunes == 2       \* runes of the value split: 1..MaxRunes

\* A rune of the basic plane (not the replacement character) and one outside
\* it, which takes two UTF-16 code units.
SplitRunes == {SuppBase - 2, SuppBase + 1}

RECURSIVE RuneSeqs(_)
RuneSeqs(n) ==
    IF n = 0 THEN {<<>>}
    ELSE {Append(rs, r) : rs \in RuneSeqs(n - 1), r \in SplitRunes}

SplitInputs == UNION {RuneSeqs(n) : n \in 1..MaxRunes}

\* The TextValue at address i, with its table in place of the pointer.
Deref(vals, tbls, i) == NewTextValue(vals[i].value, tbls[vals[i].attrs])

\* A plausible slip: the returned value keeps the receiver's attrs pointer.
HeapSplit_SharedAttrs(vals, tbls, i, offset) ==
    [values |-> Append([vals EXCEPT ![i].value =
                            ValueSplit(Deref(vals, tbls, i), offset).head.value],
                       NewTextValue(ValueSplit(Deref(vals, tbls, i), offset).tail.value,
                                    vals[i].attrs)),
     tables |-> tbls]

\* TextValue.Split(offset) on the object at address i: t.value is assigned in
\* place, and the returned value is a new object whose attrs is the new
\* table t.attrs.DeepCopy() returns.
HeapSplit(vals, tbls, i, offset) ==
    [values |-> Append([vals EXCEPT ![i].value =
                            ValueSplit(Deref(vals, tbls, i), offset).head.value],
                       NewTextValue(ValueSplit(Deref(vals, tbls, i), offset).tail.value,
                                    Len(tbls) + 1)),
     tables |-> Append(tbls, ValueSplit(Deref(vals, tbls, i), offset).tail.attrs)]

NoSplit == [at |-> 0, before |-> NewTextValue(<<>>, NewRHT), offset |-> -1, tail |-> 0]

InitValue ==
    /\ values \in {<<NewTextValue(rs, 1)>> : rs \in SplitInputs}
    /\ tables = <<NewRHT>>
    /\ splitLast = NoSplit
    /\ writeLast = 0

NoValue ==
    /\ values = <<>>
    /\ tables = <<>>
    /\ splitLast = NoSplit
    /\ writeLast = 0

\* One call values[i].Split(offset).
SplitValue(i, offset) ==
    /\ calls < MaxCalls
    /\ calls' = calls + 1
    /\ values' = HeapSplit(values, tables, i, offset).values
    /\ tables' = HeapSplit(values, tables, i, offset).tables
    /\ splitLast' = [at |-> i, before |-> Deref(values, tables, i),
                     offset |-> offset, tail |-> Len(values) + 1]
    /\ writeLast' = 0
    /\ UNCHANGED <<elemVars, callVars, attrVars, docVars, textVars, copyVars>>

\* The attribute loop of Text.Edit / Text.Style on the object at address i.
WriteValueAttrs(i, attributes, executedAt) ==
    /\ calls < MaxCalls
    /\ calls' = calls + 1
    /\ tables' = [tables EXCEPT ![values[i].attrs] = SetAttrs(@, attributes, executedAt)]
    /\ writeLast' = i
    /\ UNCHANGED <<values, splitLast, elemVars, callVars, attrVars, docVars, textVars,
                   copyVars>>

NextValue ==
    \/ \E i \in 1..Len(values) :
          \E offset \in 0..ValueLen(values[i]) : SplitValue(i, offset)
    \/ \E i \in 1..Len(values) :
          \E ks \in (SUBSET Keys) \ {{}}, t \in TicketSet :
              WriteValueAttrs(i, AttrsAt(ks, t), t)

(***************************************************************************)
(* SpecCopy: one Text, edited and styled, then copied by DeepCopy, after   *)
(* which the source and the copy are edited and styled on their own.  A    *)
(* node holds the address of its TextValue, so that a write through a      *)
(* pointer two nodes share shows in both.                                  *)
(***************************************************************************)
\* The node sequence with each value in place of its address.
InlineOf(nodes, vals, tbls) ==
    [k \in 1..Len(nodes) |-> [nodes[k] EXCEPT !.value = Deref(vals, tbls, @)]]

\* An operation on the Text whose nodes are old gave the sequence result.  A
\* node the Text already had (same id) is the same object, changed in place;
\* any other node of result is new, and so are its value and its table.
NewRank(old, result, k) ==
    Cardinality({j \in 1..k : IndexOf(old, result[j].id) = 0})

ValueAt(old, result, k, vals) ==
    IF IndexOf(old, result[k].id) # 0
    THEN old[IndexOf(old, result[k].id)].value
    ELSE Len(vals) + NewRank(old, result, k)

StoreNodes(old, result, vals) ==
    [k \in 1..Len(result) |-> [result[k] EXCEPT !.value = ValueAt(old, result, k, vals)]]

\* The node of result whose value is at address a, 0 when there is none.
NodeAt(old, result, vals, a) ==
    IF \E k \in 1..Len(result) : ValueAt(old, result, k, vals) = a
    THEN CHOOSE k \in 1..Len(result) : ValueAt(old, result, k, vals) = a
    ELSE 0

\* The node of result whose table is at address b, 0 when there is none.
TableNodeAt(old, result, vals, tbls, b) ==
    IF b > Len(tbls) THEN NodeAt(old, result, vals, Len(vals) + (b - Len(tbls)))
    ELSE IF \E k \in 1..Len(result) :
                /\ IndexOf(old, result[k].id) # 0
                /\ vals[ValueAt(old, result, k, vals)].attrs = b
         THEN CHOOSE k \in 1..Len(result) :
                /\ IndexOf(old, result[k].id) # 0
                /\ vals[ValueAt(old, result, k, vals)].attrs = b
         ELSE 0

StoreValues(old, result, vals, tbls) ==
    [a \in 1..(Len(vals) + NewRank(old, result, Len(result))) |->
        IF NodeAt(old, result, vals, a) = 0 THEN vals[a]
        ELSE NewTextValue(result[NodeAt(old, result, vals, a)].value.value,
                          IF a <= Len(vals) THEN vals[a].attrs
                          ELSE Len(tbls) + (a - Len(vals)))]

StoreTables(old, result, vals, tbls) ==
    [b \in 1..(Len(tbls) + NewRank(old, result, Len(result))) |->
        IF TableNodeAt(old, result, vals, tbls, b) = 0 THEN tbls[b]
        ELSE result[TableNodeAt(old, result, vals, tbls, b)].value.attrs]

\* A plausible slip: the copied value keeps the attrs pointer of the source.
HeapDeepCopy_SharedAttrs(source, copy, vals, tbls) ==
    [nodes |-> [k \in 1..Len(copy) |-> [copy[k] EXCEPT !.value = Len(vals) + k]],
     values |-> vals \o [k \in 1..Len(copy) |->
                    NewTextValue(copy[k].value.value,
                                 IF k = 1 THEN Len(tbls) + 1
                                 ELSE vals[source[k].value].attrs)],
     tables |-> tbls \o [k \in 1..Len(copy) |-> copy[k].value.attrs]]

\* The objects of the copy: InitialTextNode() and every node.DeepCopy() is a
\* new node with a new TextValue, whose attrs is a new table.
HeapDeepCopy(source, copy, vals, tbls) ==
    [nodes |-> StoreNodes(<<>>, copy, vals),
     values |-> StoreValues(<<>>, copy, vals, tbls),
     tables |-> StoreTables(<<>>, copy, vals, tbls)]

NoCopyElem == [createdAt |-> NilTicket, removedAt |-> NilTicket, movedAt |-> NilTicket]

NoCopy ==
    /\ src = <<>>
    /\ cpy = <<>>
    /\ copyElem = NoCopyElem
    /\ opOn = "none"

\* The source is the Text after a first edit of MaxContent runes.
InitCopy ==
    /\ src = StoreNodes(<<>>, FirstResult.nodes, <<>>)
    /\ values = StoreValues(<<>>, FirstResult.nodes, <<>>, <<>>)
    /\ tables = StoreTables(<<>>, FirstResult.nodes, <<>>, <<>>)
    /\ cpy = <<>>
    /\ copyElem = NoCopyElem
    /\ opOn = "none"
    /\ splitLast = NoSplit
    /\ writeLast = 0

TextOf(w) == IF w = "src" THEN src ELSE cpy
InlineText(w) == InlineOf(TextOf(w), values, tables)

\* The ticket of the next operation: one change after the other.
CopyTicket == [l |-> calls + 2, d |-> 0, a |-> 1]

\* The Text w has been taken from old to result.
StoreOp(w, old, result) ==
    /\ calls' = calls + 1
    /\ values' = StoreValues(old, result, values, tables)
    /\ tables' = StoreTables(old, result, values, tables)
    /\ src' = IF w = "src" THEN StoreNodes(old, result, values) ELSE src
    /\ cpy' = IF w = "cpy" THEN StoreNodes(old, result, values) ELSE cpy
    /\ opOn' = w
    /\ UNCHANGED <<copyElem, splitLast, writeLast,
                   elemVars, callVars, attrVars, docVars, textVars>>

EditOnRange(w, inline, range, n, attributes) ==
    StoreOp(w, TextOf(w),
            TextEdit(inline, range.from, range.to, NilMap,
                     ContentOf(CopyTicket, n), attributes, CopyTicket).nodes)

\* Text.Edit on the source or on the copy.
EditOn(w, from, to, n, attributes) ==
    /\ calls < MaxCalls
    /\ TextOf(w) # <<>>
    /\ from <= to /\ to <= TotalLen(InlineText(w))
    /\ from < to \/ n > 0
    /\ EditOnRange(w, InlineText(w), TextCreateRange(InlineText(w), from, to),
                   n, attributes)

StyleOnRange(w, inline, range, attributes) ==
    StoreOp(w, TextOf(w),
            TextStyle(inline, range.from, range.to, attributes, CopyTicket))

\* Text.Style on the source or on the copy.
StyleOn(w, from, to, attributes) ==
    /\ calls < MaxCalls
    /\ TextOf(w) # <<>>
    /\ from < to /\ to <= TotalLen(InlineText(w))
    /\ StyleOnRange(w, InlineText(w), TextCreateRange(InlineText(w), from, to),
                    attributes)

DeepCopyTo(res) ==
    /\ calls' = calls + 1
    /\ IF res.err
       THEN /\ opOn' = "panic"
            /\ UNCHANGED <<cpy, copyElem, values, tables>>
       ELSE /\ opOn' = "copy"
            /\ cpy' = HeapDeepCopy(src, res.nodes, values, tables).nodes
            /\ values' = HeapDeepCopy(src, res.nodes, values, tables).values
            /\ tables' = HeapDeepCopy(src, res.nodes, values, tables).tables
            /\ copyElem' = NewText(createdAt)
    /\ UNCHANGED <<src, splitLast, writeLast,
                   elemVars, callVars, attrVars, docVars, textVars>>

\* One call of Text.DeepCopy() on the source.
DeepCopy ==
    /\ calls < MaxCalls
    /\ src # <<>> /\ cpy = <<>> /\ opOn # "panic"
    /\ DeepCopyTo(TextDeepCopy(InlineText("src")))

NextCopy ==
    \/ \E w \in {"src", "cpy"} :
          \E from \in 0..TotalLen(InlineText(w)), to \in 0..TotalLen(InlineText(w)) :
              \E n \in 0..MaxContent : EditOn(w, from, to, n, [k \in Keys |-> 0])
    \/ \E w \in {"src", "cpy"} :
          \E from \in 0..TotalLen(InlineText(w)), to \in 0..TotalLen(InlineText(w)) :
              \E at \in StyleAttrs : StyleOn(w, from, to, at)
    \/ DeepCopy

(***************************************************************************)
(* SpecReplay: Text.DeepCopy on a source whose insertion links are         *)
(* arbitrary: each node records no predecessor, the initial head, a node   *)
(* before it, itself, a node after it, or a node the Text does not hold.   *)
(***************************************************************************)
MaxNodes == 2       \* nodes of the source after the initial head: 1..MaxNodes

ReplayIDs ==
    {NodeID(FirstTicket, 0), NodeID(FirstTicket, 1),
     NodeID([l |-> FirstTicket.l + 1, d |-> 0, a |-> 1], 0)}

ReplayNodeOf(id, prev) ==
    [id |-> id,
     value |-> NewTextValue(<<100 * id.createdAt.l + id.offset + 1>>, NewRHT),
     removedAt |-> NilTicket, insPrev |-> prev]

\* The node sequences of n nodes after the head, no id twice.
ReplaySources(n) ==
    {<<InitialTextNode>> \o [k \in 1..n |-> ReplayNodeOf(ids[k], prevs[k])] :
        ids \in {f \in [1..n -> ReplayIDs] : \A i, j \in 1..n : f[i] = f[j] => i = j},
        prevs \in [1..n -> ReplayIDs \cup {NilID, InitialNodeID}]}

InitReplayOf(source) ==
    /\ src = StoreNodes(<<>>, source, <<>>)
    /\ values = StoreValues(<<>>, source, <<>>, <<>>)
    /\ tables = StoreTables(<<>>, source, <<>>, <<>>)

InitReplay ==
    /\ \E n \in 1..MaxNodes : \E source \in ReplaySources(n) : InitReplayOf(source)
    /\ cpy = <<>>
    /\ copyElem = NoCopyElem
    /\ opOn = "none"
    /\ splitLast = NoSplit
    /\ writeLast = 0

NextReplay == DeepCopy

(***************************************************************************)
(* SpecElem: the element fields of a Text (createdAt, removedAt, movedAt)  *)
(* under Remove and SetMovedAt, and the fields of its DeepCopy.            *)
(***************************************************************************)
\* Text.SetMovedAt(movedAt)
SetMovedAt(t) ==
    /\ calls < MaxCalls
    /\ calls' = calls + 1
    /\ movedAt' = t
    /\ UNCHANGED <<createdAt, removedAt, selectionMap, callVars,
                   attrVars, docVars, textVars, objVars>>

\* The source is a new, empty Text.
InitElemCopy ==
    /\ src = StoreNodes(<<>>, <<InitialTextNode>>, <<>>)
    /\ values = StoreValues(<<>>, <<InitialTextNode>>, <<>>, <<>>)
    /\ tables = StoreTables(<<>>, <<InitialTextNode>>, <<>>, <<>>)
    /\ cpy = <<>>
    /\ copyElem = NoCopyElem
    /\ opOn = "none"
    /\ splitLast = NoSplit
    /\ writeLast = 0

NextElem ==
    \/ \E t \in TicketSet \cup {NilTicket} : TextRemove(t)
    \/ \E t \in TicketSet \cup {NilTicket} : SetMovedAt(t)
    \/ DeepCopy

\* One specification per group of operations.
StartRemove == InitRemove /\ InitAttrs /\ InitDoc /\ NoText /\ NoValue /\ NoCopy
StartOther == InitElem /\ InitCalls /\ InitAttrs /\ InitDoc /\ NoText /\ NoValue /\ NoCopy
StartText ==
    InitTextElem /\ InitCalls /\ InitAttrs /\ InitDoc /\ InitText /\ NoValue /\ NoCopy
StartValue ==
    InitElem /\ InitCalls /\ InitAttrs /\ InitDoc /\ NoText /\ InitValue /\ NoCopy
StartCopy == InitTextElem /\ InitCalls /\ InitAttrs /\ InitDoc /\ NoText /\ InitCopy
StartElem == InitRemove /\ InitAttrs /\ InitDoc /\ NoText /\ InitElemCopy
StartReplay == InitTextElem /\ InitCalls /\ InitAttrs /\ InitDoc /\ NoText /\ InitReplay

SpecRemove == StartRemove /\ [][NextRemove]_vars
SpecSelect == StartOther /\ [][NextSelect]_vars
SpecAttrs == StartOther /\ [][NextAttrs]_vars
SpecSet == StartOther /\ [][NextSet]_vars
SpecText == StartText /\ [][NextText]_vars
SpecValue == StartValue /\ [][NextValue]_vars
SpecCopy == StartCopy /\ [][NextCopy]_vars
SpecReplay == StartReplay /\ [][NextReplay]_vars
SpecElem == StartElem /\ [][NextElem]_vars

(***************************************************************************)
(* Properties of Text.Remove.                                              *)
(***************************************************************************)
\* C4: Text.Remove(removedAt) returns true and sets the element's removedAt to
\* the given ticket exactly when the ticket is present, is after createdAt and
\* is after the current removedAt if there is one; when the ticket is absent,
\* equal to or before createdAt, or equal to or before the current removedAt,
\* it returns false and leaves removedAt unchanged.
C4_RemoveExactlyWhen ==
    calls > 0 =>
        LET t == removeLast.arg
            before == removeLast.before
            succeeds == /\ t # NilTicket
                        /\ Compare(t, createdAt) = 1
                        /\ (before # NilTicket => Compare(t, before) = 1)
            fails == \/ t = NilTicket
                     \/ Compare(t, createdAt) \in {0, -1}
                     \/ (before # NilTicket /\ Compare(t, before) \in {0, -1})
        IN /\ succeeds \/ fails
           /\ succeeds => (removeLast.ret /\ removedAt = t)
           /\ fails => (~removeLast.ret /\ removedAt = before)

\* A second Remove with a later ticket has succeeded on a removed element.
C4_Witness ==
    removeLast.ret /\ removeLast.before # NilTicket /\ removedAt = removeLast.arg

\* C5: after any sequence of Remove calls removedAt is absent when no call
\* carried a ticket after createdAt and is otherwise the greatest such ticket;
\* along the sequence removedAt never becomes absent again and never moves to
\* an earlier ticket.
C5_RemoveMonotonic ==
    /\ [](removedAt = removeMax)
    /\ [][removedAt # NilTicket =>
            (removedAt' # NilTicket /\ Compare(removedAt', removedAt) >= 0)]_vars

\* A Remove with an older ticket (still after createdAt) has arrived after a
\* newer one and has been refused.
C5_Witness ==
    /\ calls >= 2
    /\ ~removeLast.ret
    /\ removeLast.arg # NilTicket
    /\ After(removeLast.arg, createdAt)
    /\ After(removedAt, removeLast.arg)

(***************************************************************************)
(* Properties of Text.Select.                                              *)
(***************************************************************************)
\* C6 as stated: Select replaces the actor's selection exactly when the actor
\* has no recorded selection or no recorded selection with a ticket after
\* executedAt; otherwise the recorded selection is unchanged.
C6_SelectAsStated ==
    (calls > 0 /\ selectLast.executedAt # NilTicket) =>
        LET a == ActorIDHex(selectLast.executedAt)
            prev == selectLast.before
        IN IF prev = NoSelection \/ ~After(prev.updatedAt, selectLast.executedAt)
           THEN selectionMap[a] =
                    newSelection(selectLast.from, selectLast.to, selectLast.executedAt)
           ELSE selectionMap[a] = prev

\* C6 (amended): Select replaces the actor's selection exactly when the actor
\* has no recorded selection or executedAt is after the recorded selection's
\* ticket; otherwise (an earlier or an equal ticket) the recorded selection is
\* unchanged.  Consequently the recorded selection of an actor carries the
\* greatest ticket among that actor's select operations.
C6_SelectLastWriterWins ==
    /\ (calls > 0 /\ selectLast.executedAt # NilTicket) =>
            LET a == ActorIDHex(selectLast.executedAt)
                prev == selectLast.before
            IN IF prev = NoSelection \/ Compare(selectLast.executedAt, prev.updatedAt) = 1
               THEN selectionMap[a] =
                        newSelection(selectLast.from, selectLast.to, selectLast.executedAt)
               ELSE selectionMap[a] = prev
    /\ \A a \in Actors : selectionMap[a].updatedAt = selectMax[a]

\* A select with the ticket of the recorded selection and another range has
\* been applied.
C6_Witness ==
    /\ selectLast.before # NoSelection
    /\ selectLast.before.updatedAt = selectLast.executedAt
    /\ selectLast.before.from # selectLast.from

(***************************************************************************)
(* Properties of the attribute table.                                      *)
(***************************************************************************)
\* C3: after any attribute writes on a key, in any order and with repeats, the
\* key's value is that of the write with the greatest ticket; a write whose
\* ticket is not after the key's recorded ticket changes nothing.
C3_AttrsLastWriterWins ==
    /\ \A k \in Keys :
          IF attrMax[k] = NilTicket
          THEN k \notin DOMAIN RHTElements(val.attrs)
          ELSE /\ k \in DOMAIN RHTElements(val.attrs)
               /\ RHTElements(val.attrs)[k] = AttrValueOf(k, attrMax[k])
    /\ \A k \in Keys :
          (\/ attrLast.attributes[k] = 0
           \/ (/\ attrLast.before[k] # NoAttr
               /\ ~After(attrLast.executedAt, attrLast.before[k].at)))
          => val.attrs[k] = attrLast.before[k]

\* A write with an older ticket has arrived after a newer one on the same key.
C3_Witness ==
    \E k \in Keys :
        /\ attrLast.attributes[k] # 0
        /\ attrLast.before[k] # NoAttr
        /\ After(attrLast.before[k].at, attrLast.executedAt)
        /\ attrLast.before[k].v # attrLast.attributes[k]

(***************************************************************************)
(* Properties of Set.Execute and Object.Set.                               *)
(***************************************************************************)
\* C7: Set.Execute fails and leaves the document unmodified (no member
\* changed, nothing registered) whenever its target ticket does not resolve
\* to an Object: an element of another kind, or nothing.
C7_SetFailsUnmodified ==
    [][(/\ calls' = calls + 1
        /\ FindByCreatedAt(registry, setLast'.op.parentCreatedAt).kind # "Object")
       => (setLast'.err /\ registry' = registry /\ members' = members)]_vars

\* A Set whose target resolves to a Text has failed.
C7_Witness ==
    /\ setLast.err
    /\ FindByCreatedAt(registry, setLast.op.parentCreatedAt).kind = "Text"

\* C8: the value of every Set that executed without error is resolvable in the
\* registry by its own creation ticket; a Set targeting an Object value that
\* such a Set introduced succeeds, and a Set targeting a value that no
\* executed Set has introduced yet fails.
C8_RegisteredAfterSet ==
    /\ [](\A d \in setDone :
            FindByCreatedAt(registry, d.value.createdAt) = d.value)
    /\ [][calls' = calls + 1 =>
            LET target == setLast'.op.parentCreatedAt IN
            /\ (\E d \in setDone :
                    d.value.kind = "Object" /\ d.value.createdAt = target)
               => ~setLast'.err
            /\ (/\ target # RootObject.createdAt
                /\ ~\E d \in setDone : d.value.createdAt = target)
               => setLast'.err]_vars

\* A Set on a nested Object has succeeded.
C8_Witness ==
    /\ setLast.op.value # NoElem
    /\ ~setLast.err
    /\ setLast.op.parentCreatedAt # RootObject.createdAt

\* The Sets executed without error on key k of object o.
DoneOn(o, k) == {d \in setDone : d.parentCreatedAt = o.createdAt /\ d.key = k}

\* C9: Members()[key] of an Object is the value with the greatest creation
\* ticket among the values set on that key, whatever the operations'
\* executedAt tickets and arrival order.
C9_ObjectSetByCreatedAt ==
    \A o \in Objects, k \in ObjKeys :
        IF DoneOn(o, k) = {}
        THEN k \notin DOMAIN ObjectMembers(members[o])
        ELSE /\ k \in DOMAIN ObjectMembers(members[o])
             /\ \E d \in DoneOn(o, k) :
                   /\ ObjectMembers(members[o])[k] = d.value
                   /\ \A e \in DoneOn(o, k) :
                         Compare(d.value.createdAt, e.value.createdAt) >= 0

\* The value with the smaller creation ticket was set last and with the
\* greater executedAt, on a key that already held the other value.
C9_Witness ==
    /\ setLast.op \in setDone
    /\ \E d \in setDone :
          /\ d.parentCreatedAt = setLast.op.parentCreatedAt
          /\ d.key = setLast.op.key
          /\ After(d.value.createdAt, setLast.op.value.createdAt)
          /\ After(setLast.op.executedAt, d.executedAt)
          /\ members[FindByCreatedAt(registry, d.parentCreatedAt)][d.key] = d.value
(***************************************************************************)
(* Properties of the replicated Text.                                      *)
(***************************************************************************)
\* C1: two replicas that have applied the same operations, each actor's in
\* generation order, have identical Marshal() output.
C1_Convergence ==
    Quiescent => TextMarshal(text[1], createdAt) = TextMarshal(text[2], createdAt)

\* The nodes of replica r that operation j inserted (and their split parts).
NodesOf(r, j) ==
    {k \in 2..Len(text[r]) : text[r][k].id.createdAt = ops[j].executedAt}

\* Operation j is an insert of another actor that the edit i had not seen: its
\* ticket is after the one the map of i records for its actor.
Unseen(i, j) ==
    /\ ops[i].kind = "edit" /\ ops[j].kind = "edit"
    /\ ops[j].content # <<>>
    /\ ActorIDHex(ops[i].executedAt) # ActorIDHex(ops[j].executedAt)
    /\ After(ops[j].executedAt,
             LatestCreatedAt(ops[i].latest, ActorIDHex(ops[j].executedAt)))

\* Whether every element of sequence a is an element of sequence b.
AllIn(a, b) == \A x \in 1..Len(a) : \E y \in 1..Len(b) : b[y] = a[x]

\* C2: when a replica has applied, in either order, an edit of actor A and an
\* insert of actor B that A's edit had not seen, A's edit has tombstoned none
\* of the inserted nodes, and the inserted content, unless some other
\* operation tombstoned it or a purge discarded it, is in String().
C2_InsertSurvivesDelete ==
    \A r \in Replicas : \A i \in applied[r], j \in applied[r] :
        Unseen(i, j) =>
            /\ \A k \in NodesOf(r, j) : text[r][k].removedAt # ops[i].executedAt
            /\ (/\ purged[r].count = 0
                /\ \A k \in NodesOf(r, j) : text[r][k].removedAt = NilTicket)
               => (/\ NodesOf(r, j) # {}
                   /\ AllIn(ops[j].content, TextString(text[r], createdAt)))

\* Both replicas have applied a delete of actor 1 and a concurrent insert of
\* actor 2 into the deleted range, in the two orders: on each the inserted
\* node is live between two nodes the delete tombstoned.
C2_Witness ==
    /\ Quiescent
    /\ \E i \in 1..Len(ops), j \in 1..Len(ops) :
         /\ Unseen(i, j)
         /\ i \notin ops[j].deps /\ j \notin ops[i].deps
         /\ \A r \in Replicas : \E k \in NodesOf(r, j) :
              /\ k < Len(text[r])
              /\ text[r][k].removedAt = NilTicket
              /\ text[r][k - 1].removedAt = ops[i].executedAt
              /\ text[r][k + 1].removedAt = ops[i].executedAt
              /\ AllIn(ops[j].content, TextString(text[r], createdAt))

\* What Nodes() shows of a node, apart from its insertion link.
Shown(n) == [id |-> n.id, value |-> n.value, removedAt |-> n.removedAt]

IDs(nodes) == {nodes[k].id : k \in 1..Len(nodes)}

\* The nodes a purge with the given ticket must discard.
Garbage(nodes, ticket) ==
    {k \in 1..Len(nodes) :
        nodes[k].removedAt # NilTicket /\ Compare(nodes[k].removedAt, ticket) \in {-1, 0}}

RECURSIVE Without(_, _, _)
Without(nodes, drop, k) ==
    IF k > Len(nodes) THEN <<>>
    ELSE (IF k \in drop THEN <<>> ELSE <<Shown(nodes[k])>>) \o Without(nodes, drop, k + 1)

SplitHead == Deref(values, tables, splitLast.at)
SplitTail == Deref(values, tables, splitLast.tail)

\* The last step was a Split.
JustSplit == splitLast.offset # -1 /\ writeLast = 0

\* C11: after v.Split(k), 0 <= k <= Len(v), the receiver holds the first k
\* UTF-16 code units of v and the returned value the remaining Len(v) - k:
\* head followed by tail is v, and Len(head) + Len(tail) = Len(v).
C11_SplitRoundTrip ==
    JustSplit =>
        /\ Utf16Encode(SplitHead.value)
              = SubSeq(Utf16Encode(splitLast.before.value), 1, splitLast.offset)
        /\ Utf16Encode(SplitTail.value)
              = SubSeq(Utf16Encode(splitLast.before.value), splitLast.offset + 1,
                       ValueLen(splitLast.before))
        /\ SplitHead.value \o SplitTail.value = splitLast.before.value
        /\ ValueLen(SplitHead) + ValueLen(SplitTail) = ValueLen(splitLast.before)

\* C16: immediately after Split the returned value has the attribute entries
\* (key, value, ticket) of the receiver, and an attribute write on one
\* TextValue leaves the attributes of every other TextValue as they were.
C16_SplitAttrsNotShared ==
    /\ [](JustSplit => /\ SplitTail.attrs = SplitHead.attrs
                       /\ SplitTail.attrs = splitLast.before.attrs)
    /\ [][writeLast' # 0 =>
            \A j \in (1..Len(values)) \ {writeLast'} :
                tables'[values'[j].attrs] = tables[values[j].attrs]]_vars

\* A value that had attributes was split, and a write on one of the two
\* fragments has since made their attributes differ.
C16_Witness ==
    /\ splitLast.offset # -1
    /\ splitLast.before.attrs # NewRHT
    /\ writeLast \in {splitLast.at, splitLast.tail}
    /\ SplitHead.attrs # SplitTail.attrs

(***************************************************************************)
(* Properties of Text.String and Text.Marshal.                             *)
(***************************************************************************)
\* A node that is not tombstoned and is not a placeholder of the Text.
IsLive(n) == n.removedAt = NilTicket /\ n.id.createdAt # createdAt

\* The runes, and the number, of the live nodes before position k.
RECURSIVE LiveRunes(_, _)
LiveRunes(nodes, k) ==
    IF k <= 2 THEN 0
    ELSE LiveRunes(nodes, k - 1)
         + (IF IsLive(nodes[k - 1]) THEN Len(nodes[k - 1].value.value) ELSE 0)

LiveCount(nodes, k) == Cardinality({i \in 2..(k - 1) : IsLive(nodes[i])})

RunesOf(rs) == {rs[i] : i \in 1..Len(rs)}

\* C12: String() is the content of the nodes that are not tombstoned (the
\* initial head and placeholders apart), in sequence order, and Marshal()
\* renders the same nodes in the same order; no tombstoned content appears.
C12_StringAndMarshalRenderLive ==
    \A r \in Replicas :
        /\ Len(TextString(text[r], createdAt)) = LiveRunes(text[r], Len(text[r]) + 1)
        /\ Len(TextMarshal(text[r], createdAt)) = LiveCount(text[r], Len(text[r]) + 1)
        /\ \A k \in 2..Len(text[r]) :
              IF IsLive(text[r][k])
              THEN /\ SubSeq(TextString(text[r], createdAt),
                             LiveRunes(text[r], k) + 1,
                             LiveRunes(text[r], k) + Len(text[r][k].value.value))
                        = text[r][k].value.value
                   /\ TextMarshal(text[r], createdAt)[LiveCount(text[r], k) + 1]
                        = ValueMarshal(text[r][k].value)
              ELSE RunesOf(text[r][k].value.value)
                        \cap RunesOf(TextString(text[r], createdAt)) = {}

\* A replica holds a tombstoned node with content and, after it, a live node
\* with content and attributes.
C12_Witness ==
    \E r \in Replicas : \E k \in 2..Len(text[r]), j \in 2..Len(text[r]) :
        /\ k < j
        /\ text[r][k].removedAt # NilTicket /\ text[r][k].value.value # <<>>
        /\ IsLive(text[r][j]) /\ text[r][j].value.value # <<>>
        /\ text[r][j].value.attrs # NewRHT

(***************************************************************************)
(* Properties of Text.DeepCopy.                                            *)
(***************************************************************************)
\* C13: DeepCopy returns a Text whose Nodes() equals the source's, position
\* by position, in node id, content, attributes, removedAt and insertion
\* predecessor id; and an Edit or Style applied afterwards to the copy changes
\* no node, attribute or String() of the source, and the reverse.
C13_DeepCopyEqualAndIndependent ==
    [][/\ opOn' = "copy" =>
            /\ TextNodes(InlineOf(cpy', values', tables'))
                  = TextNodes(InlineOf(src, values, tables))
            /\ InlineOf(src', values', tables') = InlineOf(src, values, tables)
       /\ opOn' = "cpy" =>
            /\ InlineOf(src', values', tables') = InlineOf(src, values, tables)
            /\ TextString(InlineOf(src', values', tables'), createdAt)
                  = TextString(InlineOf(src, values, tables), createdAt)
       /\ (opOn' = "src" /\ cpy # <<>>) =>
            /\ InlineOf(cpy', values', tables') = InlineOf(cpy, values, tables)
            /\ TextString(InlineOf(cpy', values', tables'), createdAt)
                  = TextString(InlineOf(cpy, values, tables), createdAt)
      ]_vars

\* A source with a tombstoned node, a split node and attributes was copied,
\* and a later operation on the copy has made the two differ.
C13_Witness ==
    /\ cpy # <<>> /\ opOn = "cpy"
    /\ \E k \in 2..Len(src) : src[k].removedAt # NilTicket
    /\ \E k \in 2..Len(src) : src[k].insPrev # NilID
    /\ InlineOf(cpy, values, tables) # InlineOf(src, values, tables)

\* Node k records a predecessor that none of nodes[1..upto] carries.
Unresolved(nodes, k, upto) ==
    /\ nodes[k].insPrev # NilID
    /\ \A j \in 1..upto : nodes[j].id # nodes[k].insPrev

DeepCopyCalled == opOn \in {"copy", "panic"}

\* C17, as stated: DeepCopy fails, returning no copy, exactly when some node
\* records a predecessor id that neither the initial head nor a node before
\* it in sequence order carries.
C17_FailsIffMissingBefore ==
    DeepCopyCalled =>
        /\ (opOn = "panic") <=> (\E k \in 2..Len(src) : Unresolved(src, k, k - 1))
        /\ (opOn = "panic") <=> (cpy = <<>>)

\* C17, amended: DeepCopy fails, returning no copy, exactly when some node
\* records a predecessor id that is not carried by the initial head, a node
\* before it in sequence order, or the node itself.
C17_FailsIffMissingSoFar ==
    DeepCopyCalled =>
        /\ (opOn = "panic") <=> (\E k \in 2..Len(src) : Unresolved(src, k, k))
        /\ (opOn = "panic") <=> (cpy = <<>>)

\* DeepCopy has failed on a source whose only unresolved predecessor is a
\* node that comes later in the sequence.
C17_Witness ==
    /\ opOn = "panic" /\ cpy = <<>>
    /\ \E k \in 2..Len(src) :
         /\ Unresolved(src, k, k)
         /\ \E j \in (k + 1)..Len(src) : src[j].id = src[k].insPrev

\* C18: in every Text reached by Edit, Style and purgeTextNodesWithGarbage
\* calls, a node that records an insertion predecessor has that id carried by
\* a node still present and earlier in the sequence, and DeepCopy of the Text
\* does not fail.
C18_InsPrevPresentAndEarlier ==
    \A r \in Replicas :
        /\ \A k \in 2..Len(text[r]) :
              text[r][k].insPrev # NilID =>
                  \E j \in 1..(k - 1) : text[r][j].id = text[r][k].insPrev
        /\ ~TextDeepCopy(text[r]).err
        /\ TextNodes(TextDeepCopy(text[r]).nodes) = TextNodes(text[r])

\* A replica has purged a node and still holds a node that records an
\* insertion predecessor.
C18_Witness ==
    \E r \in Replicas :
        /\ purged[r].count > 0
        /\ \E k \in 2..Len(text[r]) : text[r][k].insPrev # NilID

(***************************************************************************)
(* Properties of Text.Style.                                               *)
(***************************************************************************)
\* Every rune is inserted once, so a rune names a character of the text.
AllRunes(nodes) == UNION {RunesOf(nodes[k].value.value) : k \in 1..Len(nodes)}

NodeOfRune(nodes, c) == nodes[CHOOSE k \in 1..Len(nodes) : c \in RunesOf(nodes[k].value.value)]

\* The offset of a live character in String().
OffsetOf(nodes, c) ==
    (CHOOSE i \in 1..Len(TextString(nodes, createdAt)) :
        TextString(nodes, createdAt)[i] = c) - 1

\* Replica r executes the style operation i in this step.
StyleStep(r, i) == i \in applied'[r] \ applied[r] /\ ops'[i].kind = "style"

\* Text.Style leaves the tombstones and String() as they are.
StyleTombstonesNothing(before, after) ==
    /\ TextString(after, createdAt) = TextString(before, createdAt)
    /\ \A c \in AllRunes(before) :
          NodeOfRune(after, c).removedAt = NodeOfRune(before, c).removedAt

\* The characters of [from, to) get the attributes by RHT set at executedAt,
\* and no other live character changes.
StyleSetsLive(before, after, from, to, attributes, executedAt) ==
    \A c \in AllRunes(before) :
        NodeOfRune(before, c).removedAt = NilTicket =>
            NodeOfRune(after, c).value.attrs
                = IF OffsetOf(before, c) \in from..(to - 1)
                  THEN SetAttrs(NodeOfRune(before, c).value.attrs, attributes, executedAt)
                  ELSE NodeOfRune(before, c).value.attrs

StyleKeepsTombstoned(before, after) ==
    \A c \in AllRunes(before) :
        NodeOfRune(before, c).removedAt # NilTicket =>
            NodeOfRune(after, c).value.attrs = NodeOfRune(before, c).value.attrs

\* The style op is the local call Style(CreateRange(from, to), ...) on before.
LocalStyleOf(before, op, from, to) ==
    /\ Len(ops') > Len(ops)
    /\ from < to /\ to <= TotalLen(before)
    /\ TextCreateRange(before, from, to) = [from |-> op.from, to |-> op.to]

\* C14: Style applies each attribute, by RHT set at executedAt, to every live
\* node between the boundaries and to no other node: nodes outside the range
\* and tombstoned nodes keep their attributes; and Style tombstones nothing:
\* String() and the removed nodes are the same before and after.
C14_StyleFrame ==
    [][\A r \in Replicas : \A i \in 1..Len(ops') :
          StyleStep(r, i) =>
              /\ StyleTombstonesNothing(text[r], text'[r])
              /\ StyleKeepsTombstoned(text[r], text'[r])
              /\ \A from \in 0..TotalLen(text[r]), to \in 0..TotalLen(text[r]) :
                    LocalStyleOf(text[r], ops'[i], from, to) =>
                        StyleSetsLive(text[r], text'[r], from, to,
                                      ops'[i].attributes, ops'[i].executedAt)
      ]_vars

\* The boundary a position of the first edit's node (or the initial head)
\* names: the number of characters of the first edit before it.
BoundaryOf(pos) ==
    IF pos.id = InitialNodeID THEN 0 ELSE pos.id.offset + pos.relativeOffset

OnFirstEdit(pos) == pos.id = InitialNodeID \/ pos.id.createdAt = FirstTicket

\* The characters of the first edit (by index) a style operation covers.
Covers(op) == BoundaryOf(op.from)..(BoundaryOf(op.to) - 1)

\* Operations i and j are the two styles replica r has executed, i before j
\* in ticket order, both on ranges of the first edit's text, which overlap.
TwoStyles(r, i, j) ==
    /\ {i, j} \subseteq applied[r]
    /\ {k \in applied[r] : ops[k].kind = "style"} = {i, j}
    /\ After(ops[j].executedAt, ops[i].executedAt)
    /\ OnFirstEdit(ops[i].from) /\ OnFirstEdit(ops[i].to)
    /\ OnFirstEdit(ops[j].from) /\ OnFirstEdit(ops[j].to)
    /\ Covers(ops[i]) \cap Covers(ops[j]) # {}

\* The value the two styles leave on character x of the first edit.
StyledValue(i, j, x, key) ==
    IF x \in Covers(ops[j]) /\ ops[j].attributes[key] # 0 THEN ops[j].attributes[key]
    ELSE IF x \in Covers(ops[i]) /\ ops[i].attributes[key] # 0 THEN ops[i].attributes[key]
    ELSE 0

\* C15: two styles with tickets t1 before t2 on overlapping ranges, applied
\* in either order: a character in the overlap carries t2's value, one that
\* only one range covers carries that range's value, one outside both is
\* unchanged; so the values are the same for both orders.
C15_OverlappingStylesConverge ==
    \A r \in Replicas : \A i \in 1..Len(ops), j \in 1..Len(ops) :
        TwoStyles(r, i, j) =>
            \A x \in 0..(MaxContent - 1), key \in Keys :
                FirstEdit.content[x + 1] \in AllRunes(text[r]) =>
                    NodeOfRune(text[r], FirstEdit.content[x + 1]).value.attrs[key].v
                        = StyledValue(i, j, x, key)

\* Two concurrent styles with different values, one range inside the other,
\* have been executed by both replicas.
C15_Witness ==
    /\ Quiescent
    /\ \E i \in 1..Len(ops), j \in 1..Len(ops) :
         /\ \A r \in Replicas : TwoStyles(r, i, j)
         /\ i \notin ops[j].deps /\ j \notin ops[i].deps
         /\ ops[i].attributes # ops[j].attributes
         /\ Covers(ops[i]) # Covers(ops[j])
         /\ \E x \in 0..(MaxContent - 1) :
              FirstEdit.content[x + 1] \in AllRunes(text[1]) \cap AllRunes(text[2])

\* C19: the Text DeepCopy returns has the createdAt, the removedAt and the
\* movedAt of the source, so a Text removed at t is removed at t in its copy.
C19_CopyCarriesElementState ==
    [][opOn' = "copy" =>
          copyElem' = [createdAt |-> createdAt, removedAt |-> removedAt,
                       movedAt |-> movedAt]]_vars

\* The write of the executed Set d is not what Members() shows on its key.
LostWrite(d) ==
    LET parent == FindByCreatedAt(registry, d.parentCreatedAt) IN
    \/ d.key \notin DOMAIN ObjectMembers(members[parent])
    \/ ObjectMembers(members[parent])[d.key] # d.value

\* C20: after any sequence of Set.Execute calls, failed ones included, every
\* value in Members() of an Object the registry resolves is itself resolved by
\* the registry under its own creation ticket, and so is the value of a
\* successful Set whose write lost last-writer-wins.
C20_MembersRegistered ==
    /\ \A o \in Objects :
          FindByCreatedAt(registry, o.createdAt) = o
          => \A k \in DOMAIN ObjectMembers(members[o]) :
                FindByCreatedAt(registry,
                                ObjectMembers(members[o])[k].createdAt)
                   = ObjectMembers(members[o])[k]
    /\ \A d \in setDone :
          LostWrite(d) => FindByCreatedAt(registry, d.value.createdAt) = d.value

\* The last Set succeeded, lost last-writer-wins to the member the key
\* already held, no other executed Set carries its value, and a Set has
\* failed before it.
C20_Witness ==
    /\ setLast.op \in setDone
    /\ ~setLast.err
    /\ LostWrite(setLast.op)
    /\ \A d \in setDone \ {setLast.op} : d.value # setLast.op.value
    /\ calls > Cardinality(setDone)
    /\ FindByCreatedAt(registry, setLast.op.value.createdAt) = setLast.op.value
====
